---- MODULE Spec2Model ----
(***************************************************************************)
(* Model of the renderComponent filter of eleventy-plugin-reusable-        *)
(* components (src/src/filters.js).  A call of the async filter is a       *)
(* process: it runs its guards, scans the components collection for each   *)
(* valid item, suspends at the await of the render delegate and finally    *)
(* joins the rendered outputs.                                             *)
(*                                                                         *)
(* Strings are sequences: a name (title, type) is a sequence of one-       *)
(* character strings, any other field value a one-element sequence,        *)
(* rendered text a sequence of tokens.  An object's fields are a set of    *)
(* <<name, value>> pairs.                                                  *)
(***************************************************************************)
EXTENDS Naturals, Sequences, FiniteSets

\* Bounds of the model.
MaxComponents == 2
MaxItems == 2
MaxNameLen == 3
MaxSupplied == 2

CallIds == {"c1", "c2"}

(***************************************************************************)
(* Strings and objects                                                     *)
(***************************************************************************)
EmptyString == << >>

Truthy(s) == s # EmptyString

Has(obj, f) == \E p \in obj : p[1] = f

Get(obj, f) == (CHOOSE p \in obj : p[1] = f)[2]

\* obj.f in a boolean position: undefined and "" are both falsy.
TruthyField(obj, f) == Has(obj, f) /\ Truthy(Get(obj, f))

(***************************************************************************)
(* The host's slugify filter: lowercase, every run of characters that are  *)
(* not letters or digits becomes one hyphen, leading and trailing hyphens  *)
(* are trimmed.                                                            *)
(***************************************************************************)
Letters == {"h", "i", "z", "H", "I"}

Lower(ch) == CASE ch = "H" -> "h"
               [] ch = "I" -> "i"
               [] OTHER -> ch

Hyphenate(s) == [n \in 1..Len(s) |-> IF s[n] \in Letters THEN Lower(s[n]) ELSE "-"]

RECURSIVE CollapseFrom(_, _)
CollapseFrom(t, n) ==
  IF n > Len(t) THEN << >>
  ELSE IF t[n] = "-" /\ (n = 1 \/ t[n - 1] = "-" \/ \A m \in n..Len(t) : t[m] = "-")
       THEN CollapseFrom(t, n + 1)
       ELSE <<t[n]>> \o CollapseFrom(t, n + 1)

slugifyTrimmingOne(s) ==
  LET t == Hyphenate(s)
  IN  IF t # << >> /\ t[1] = "-" THEN Tail(t) ELSE t

slugifyFilter(s) == CollapseFrom(Hyphenate(s), 1)

\* A slugify filter a configuration file may register in place of the host's: it
\* keeps every separator.
customSlugify(s) == Hyphenate(s)

(***************************************************************************)
(* The host's renderContent filter (the render delegate).  What it makes   *)
(* of a template is decided by the template source: a broken source makes  *)
(* it throw, an empty-rendering source yields "", any other source yields  *)
(* text that depends on the source, the language and the data.             *)
(***************************************************************************)
BrokenSources == {"{% broken"}
BlankSources == {"{# blank #}"}
GoodSources == {"<p>{{ heading }}</p>", "<div>{{ heading }}</div>"}

Token(src, lang, data) == [src |-> src, lang |-> lang, data |-> data]

Newline == Token("\n", "", {})

renderFilterThrows(src, lang, data) == src \in BrokenSources

renderFilter(src, lang, data) ==
  IF src \in BlankSources THEN EmptyString ELSE <<Token(src, lang, data)>>

(***************************************************************************)
(* Component definitions (the elements of collections.components) and      *)
(* request items                                                           *)
(***************************************************************************)
Component(data, rawInput) == [hasData |-> TRUE, data |-> data, rawInput |-> rawInput]

ComponentSet ==
  { Component({<<"title", <<"H", "i">>>>, <<"heading", <<"Default">>>>,
               <<"background", <<"light">>>>}, "<p>{{ heading }}</p>"),
    Component({<<"title", <<"h", "i">>>>}, "{# blank #}"),
    Component({<<"title", <<"H", " ", "I">>>>}, "{% broken"),
    Component({<<"title", <<"h", " ", "i">>>>, <<"heading", <<"Default">>>>},
              "<div>{{ heading }}</div>"),
    Component({<<"heading", <<"Default">>>>}, "<p>{{ heading }}</p>"),
    [hasData |-> FALSE, data |-> {}, rawInput |-> "<div>{{ heading }}</div>"] }

Item(fields) == [isObject |-> TRUE, fields |-> fields]

Null == [isObject |-> FALSE, fields |-> {}]

ItemSet ==
  { Null,
    Item({<<"heading", <<"Custom">>>>}),
    Item({<<"type", <<"h", "i">>>>, <<"heading", <<"Custom">>>>, <<"cta", <<"Go">>>>}),
    Item({<<"type", <<"h", "-", "i">>>>}),
    Item({<<"type", <<" ">>>>}) }

SeqsUpTo(S, n) == UNION {[1..m -> S] : m \in 0..n}

\* The first argument of the filter: one item or an array of items.
Single(item) == [isArray |-> FALSE, item |-> item, elems |-> << >>]

Array(elems) == [isArray |-> TRUE, item |-> Null, elems |-> elems]

Inputs == {Single(i) : i \in ItemSet} \cup {Array(e) : e \in SeqsUpTo(ItemSet, MaxItems)}

\* The second argument: "undefined" when the caller omits it.
LangArgs == {"undefined", "njk"}

(***************************************************************************)
(* The calling context (`this` of the filter)                              *)
(***************************************************************************)
NoCollections == [present |-> FALSE, hasComponents |-> FALSE, components |-> << >>]

Collections(components) ==
  [present |-> TRUE, hasComponents |-> TRUE, components |-> components]

CollectionsWithoutComponents ==
  [present |-> TRUE, hasComponents |-> FALSE, components |-> << >>]

Context(hasCtx, ctxCollections, thisCollections) ==
  [hasCtx |-> hasCtx, ctxCollections |-> ctxCollections,
   thisCollections |-> thisCollections]

\* The collection sits on this.ctx.collections (lists of up to MaxComponents
\* definitions), or on this.collections with or without a ctx object (one
\* definition less), or nowhere.
Contexts ==
  LET lists == SeqsUpTo(ComponentSet, MaxComponents)
      shorter == SeqsUpTo(ComponentSet, MaxComponents - 1)
  IN  {Context(TRUE, Collections(l), NoCollections) : l \in lists}
        \cup {Context(TRUE, NoCollections, Collections(l)) : l \in shorter}
        \cup {Context(FALSE, NoCollections, Collections(l)) : l \in shorter}
        \cup { Context(FALSE, NoCollections, NoCollections),
               Context(TRUE, NoCollections, NoCollections),
               Context(TRUE, CollectionsWithoutComponents, NoCollections),
               Context(TRUE, NoCollections, CollectionsWithoutComponents) }

VARIABLES
  this,             \* the calling context, with the components collection
  call,             \* call[c]: the state of filter call c
  eleventyConfig,   \* the host's configuration object
  env,              \* process.env.ELEVENTY_ENV
  defaultOptions,   \* the exported defaultOptions object
  setups,           \* the plugin setups made so far, each with its options
  page              \* the calling template (its language)

host == <<eleventyConfig, env, defaultOptions, setups, page>>

vars == <<this, call, eleventyConfig, env, defaultOptions, setups, page>>

(***************************************************************************)
(* The host's configuration API, as the plugin uses it                     *)
(***************************************************************************)
\* A configuration object before the plugin is added; a host may expose no
\* plugins list.
\* Its universal filters: slugify is built in, renderContent comes with the render
\* plugin.
FreshConfig(hasPlugins, plugins) ==
  [hasPlugins |-> hasPlugins, plugins |-> plugins, added |-> << >>, ignores |-> {},
   collections |-> << >>, bundles |-> << >>, filters |-> << >>,
   universalFilters |->
     [slugify |-> "builtin",
      renderContent |-> IF plugins = << >> THEN "none" ELSE "builtin"]]

\* eleventyConfig.addPlugin(plugin)
addPlugin(config, plugin) ==
  [config EXCEPT !.added = Append(@, plugin),
                 !.plugins = IF config.hasPlugins THEN Append(@, plugin) ELSE @,
                 !.universalFilters.renderContent = "builtin"]

\* eleventyConfig.ignores.add(glob)
ignoresAdd(config, glob) == [config EXCEPT !.ignores = @ \cup {glob}]

\* eleventyConfig.addCollection(name, callback)
addCollection(config, name, callback) ==
  [config EXCEPT !.collections = Append(@, [name |-> name, callback |-> callback])]

\* eleventyConfig.addBundle(name, { toFileDirectory })
addBundle(config, name, toFileDirectory) ==
  [config EXCEPT !.bundles = Append(@, [name |-> name, toFileDirectory |-> toFileDirectory])]

\* eleventyConfig.addFilter(name, fn)
addFilter(config, name) == [config EXCEPT !.filters = Append(@, name)]

\* A filter a configuration file registers under the name of a built-in one.
registerFilter(config, name, implementation) ==
  [config EXCEPT !.universalFilters[name] = implementation]

getFilterAtSetup(name) == setups[Len(setups)].before.universalFilters[name]

\* eleventyConfig.getFilter(name), evaluated in the body of the filter function:
\* the implementation registered when the call runs, "none" when there is none.
getFilter(name) == eleventyConfig.universalFilters[name]

\* The component files the host discovers for a glob, in discovery order.
HostFiles ==
  [glob \in {"src/components/*.njk", "src/widgets/*.liquid", "src/blocks/*.vto"} |->
     IF glob = "src/components/*.njk"
       THEN << Component({<<"title", <<"h", "i">>>>}, "<p>{{ heading }}</p>"),
               Component({<<"title", <<"H", " ", "I">>>>}, "<div>{{ heading }}</div>"),
               Component({<<"title", <<"H", "i">>>>}, "{# blank #}") >>
     ELSE IF glob = "src/widgets/*.liquid"
       THEN << Component({<<"title", <<"z">>>>}, "<div>{{ heading }}</div>"),
               Component({<<"title", <<"i">>>>}, "{% broken") >>
     ELSE << >>]

\* collectionApi.getFilteredByGlob(glob)
getFilteredByGlob(glob) == HostFiles[glob]

\* The host evaluates a registered collection by calling its callback.
collectionItems(registered) == getFilteredByGlob(registered.callback.getFilteredByGlob)

\* {% getBundleFileUrl name %}: the bundles registered under the name.
getBundleFileUrl(config, name) ==
  {n \in 1..Len(config.bundles) : config.bundles[n].name = name}

(***************************************************************************)
(* Plugin setup: config.js, plugin.js, collections.js, bundles.js          *)
(***************************************************************************)
DefaultOptions ==
  [componentsDir |-> "src/components/*.njk",
   cssBundleDir |-> "./assets/styles/",
   jsBundleDir |-> "./assets/scripts/",
   collectionName |-> "components",
   enableRenderPlugin |-> TRUE,
   enableBundles |-> TRUE,
   excludeFromProduction |-> TRUE]

OptionNames == DOMAIN DefaultOptions

\* What a user may pass for each option: the opposite of every default, or other
\* paths with every toggle set to true.
CustomOptions ==
  { [componentsDir |-> "src/widgets/*.liquid", cssBundleDir |-> "./css/",
     jsBundleDir |-> "./js/", collectionName |-> "widgets",
     enableRenderPlugin |-> FALSE, enableBundles |-> FALSE,
     excludeFromProduction |-> FALSE],
    [componentsDir |-> "src/blocks/*.vto", cssBundleDir |-> "./dist/",
     jsBundleDir |-> "./dist/", collectionName |-> "blocks",
     enableRenderPlugin |-> TRUE, enableBundles |-> TRUE,
     excludeFromProduction |-> TRUE] }

\* userOptions: any choice of up to MaxSupplied options.
UserOptions ==
  { [k \in supplied |-> custom[k]] :
      custom \in CustomOptions,
      supplied \in {S \in SUBSET OptionNames : Cardinality(S) <= MaxSupplied} }

mergeOptionsDefaultsLast(defaults, userOptions) ==
  [k \in DOMAIN defaults \cup DOMAIN userOptions |->
     IF k \in DOMAIN defaults THEN defaults[k] ELSE userOptions[k]]

\* const options = { ...defaultOptions, ...userOptions };
mergeOptions(defaults, userOptions) ==
  [k \in DOMAIN defaults \cup DOMAIN userOptions |->
     IF k \in DOMAIN userOptions THEN userOptions[k] ELSE defaults[k]]

includes(plugins, plugin) == \E n \in 1..Len(plugins) : plugins[n] = plugin

addRenderPluginAlways(config, options) ==
  IF options.enableRenderPlugin THEN addPlugin(config, "EleventyRenderPlugin") ELSE config

\* plugin.js lines 39-41
addRenderPlugin(config, options) ==
  IF options.enableRenderPlugin
       /\ (~config.hasPlugins \/ ~includes(config.plugins, "EleventyRenderPlugin"))
  THEN addPlugin(config, "EleventyRenderPlugin")
  ELSE config

excludeComponentsIgnoringEnv(config, options, environment) ==
  IF options.excludeFromProduction THEN ignoresAdd(config, options.componentsDir) ELSE config

\* plugin.js lines 46-48
excludeComponents(config, options, environment) ==
  IF options.excludeFromProduction /\ environment = "production"
  THEN ignoresAdd(config, options.componentsDir)
  ELSE config

addCollectionsFixedName(config, options) ==
  addCollection(config, "components", [getFilteredByGlob |-> options.componentsDir])

\* collections.js
addCollections(config, options) ==
  addCollection(config, options.collectionName,
                [getFilteredByGlob |-> options.componentsDir])

addBundlesSwapped(config, options) ==
  IF options.enableBundles
  THEN addBundle(addBundle(config, "componentCss", options.jsBundleDir),
                 "componentJs", options.cssBundleDir)
  ELSE config

\* bundles.js
addBundles(config, options) ==
  IF options.enableBundles
  THEN addBundle(addBundle(config, "componentCss", options.cssBundleDir),
                 "componentJs", options.jsBundleDir)
  ELSE config

\* filters.js line 89
addFilters(config, options) == addFilter(config, "renderComponent")

\* plugin.js lines 31-58, on a configuration object
configured(config, options, environment) ==
  addFilters(
    addBundles(
      addCollections(
        excludeComponents(addRenderPlugin(config, options), options, environment),
        options),
      options),
    options)

Setup(config, userOptions, options) ==
  [userOptions |-> userOptions, options |-> options, before |-> config]

\* The host as the filter finds it: the plugin was added once, with the default
\* options, and a Nunjucks template calls the filter.
HostReady ==
  /\ eleventyConfig = configured(FreshConfig(TRUE, << >>), DefaultOptions, "undefined")
  /\ env = "undefined"
  /\ defaultOptions = DefaultOptions
  /\ setups = <<Setup(FreshConfig(TRUE, << >>), [k \in {} |-> TRUE], DefaultOptions)>>
  /\ page = [templateSyntax |-> "njk"]

(***************************************************************************)
(* renderComponent, line by line                                           *)
(***************************************************************************)
templateLangAsGiven(arg) == arg

\* async function (items, templateLang = "liquid")
templateLang(arg) == IF arg = "undefined" THEN "liquid" ELSE arg

\* !items: an array is truthy, a null item is not
Falsy(items) == ~items.isArray /\ ~items.item.isObject

\* const itemsArray = Array.isArray(items) ? items : [items];
itemsArrayUnwrapped(items) == items.elems

itemsArray(items) == IF items.isArray THEN items.elems ELSE <<items.item>>

HasTypeLoose(item) == item.isObject

\* item => item && item.type
HasType(item) == item.isObject /\ TruthyField(item.fields, "type")

\* const validItems = itemsArray.filter(item => item && item.type);
validItems(items) == SelectSeq(itemsArray(items), HasType)

\* const collections = this.ctx.collections || this.collections;
collections(self) ==
  IF self.ctxCollections.present THEN self.ctxCollections ELSE self.thisCollections

HasTitleLoose(component) == component.hasData /\ Has(component.data, "title")

\* if (component.data && component.data.title)
HasTitle(component) == component.hasData /\ TruthyField(component.data, "title")

SlugsEqualRaw(component, item) ==
  Get(component.data, "title") = Get(item.fields, "type")

SlugsEqualIgnoringSeparators(component, item) ==
  LET letters(s) == SelectSeq(Hyphenate(s), LAMBDA ch : ch # "-")
  IN  letters(Get(component.data, "title")) = letters(Get(item.fields, "type"))

\* componentSlug === itemSlug
SlugsEqual(component, item) ==
  slugifyFilter(Get(component.data, "title")) = slugifyFilter(Get(item.fields, "type"))

\* componentSlug === itemSlug, with the slugify filter the call resolved
SlugsEqualWith(implementation, component, item) ==
  IF implementation = "custom"
  THEN customSlugify(Get(component.data, "title")) = customSlugify(Get(item.fields, "type"))
  ELSE SlugsEqual(component, item)

\* the data argument of renderFilter.call(this, component.rawInput, templateLang, item)
renderData(component, item) == item.fields

joinWithTrailingNewline(parts) ==
  IF parts = << >> THEN EmptyString
  ELSE LET line[n \in 1..Len(parts)] ==
             IF n = 1 THEN parts[1] \o <<Newline>>
             ELSE line[n - 1] \o parts[n] \o <<Newline>>
       IN  line[Len(parts)]

\* renderedComponents.join('\n')
RECURSIVE join(_)
join(parts) ==
  IF parts = << >> THEN EmptyString
  ELSE IF Len(parts) = 1 THEN parts[1]
  ELSE parts[1] \o <<Newline>> \o join(Tail(parts))

Unused ==
  [pc |-> "unused", items |-> Array(<< >>), lang |-> "undefined", validItems |-> << >>,
   k |-> 1, j |-> 1, renderedComponents |-> << >>, result |-> EmptyString,
   error |-> "", slugifyCalls |-> 0, renderCalls |-> << >>,
   slugifyFilter |-> "", renderFilter |-> ""]

Called(items, lang) == [Unused EXCEPT !.pc = "called", !.items = items, !.lang = lang]

Init ==
  /\ HostReady
  /\ this \in Contexts
  /\ \E items \in Inputs, lang \in LangArgs :
       call = [c \in CallIds |-> IF c = "c1" THEN Called(items, lang) ELSE Unused]

Return(r, value) == [r EXCEPT !.pc = "returned", !.result = value]

Throw(r, error) == [r EXCEPT !.pc = "rejected", !.error = error]

StartScanFilteringInPlace(r, valid) ==
  [r EXCEPT !.pc = "scan", !.items = Array(valid), !.validItems = valid, !.k = 1, !.j = 1,
            !.slugifyFilter = getFilter("slugify"),
            !.renderFilter = getFilter("renderContent")]

\* Lines 97-98 and 109-113: validItems is a new array, the two delegates are
\* resolved, the loop starts at the first element and the arguments stay as they
\* were passed.
StartScan(r, valid) ==
  [r EXCEPT !.pc = "scan", !.validItems = valid, !.k = 1, !.j = 1,
            !.slugifyFilter = getFilter("slugify"),
            !.renderFilter = getFilter("renderContent")]

\* Lines 89-111: the guards, up to the start of the loop over validItems.
Invoke(c) ==
  /\ call[c].pc = "called"
  /\ LET r == call[c]
         valid == validItems(r.items)
     IN  call' = [call EXCEPT ![c] =
           IF Falsy(r.items) THEN Return(r, EmptyString)
           ELSE IF Len(valid) = 0 THEN Return(r, EmptyString)
           ELSE IF ~this.hasCtx THEN Throw(r, "TypeError")
           ELSE IF ~collections(this).present \/ ~collections(this).hasComponents
                THEN Return(r, EmptyString)
           ELSE StartScan(r, valid)]
  /\ UNCHANGED <<this, host>>

AfterMatchWithoutBreak(r) == [r EXCEPT !.j = r.j + 1]

\* The position after `break`: the next item, from the first component.
AfterMatch(r) == [r EXCEPT !.k = r.k + 1, !.j = 1]

StartWithoutAwait(r, invocation) ==
  AfterMatch([r EXCEPT !.renderCalls = Append(r.renderCalls, invocation)])

\* await renderFilter.call(...): the delegate is invoked and the call is suspended
\* until the delegate's promise settles.
Suspend(r, invocation) ==
  [r EXCEPT !.pc = "await", !.renderCalls = Append(r.renderCalls, invocation)]

\* Lines 116-123: one iteration of the inner loop, up to the await.
Compare(c) ==
  /\ call[c].pc = "scan"
  /\ call[c].k <= Len(call[c].validItems)
  /\ call[c].j <= Len(collections(this).components)
  /\ LET r == call[c]
         item == r.validItems[r.k]
         component == collections(this).components[r.j]
     IN  call' = [call EXCEPT ![c] =
           IF ~HasTitle(component) THEN [r EXCEPT !.j = r.j + 1]
           ELSE IF r.slugifyFilter = "none" THEN Throw(r, "TypeError")
           ELSE IF ~SlugsEqualWith(r.slugifyFilter, component, item)
                THEN [r EXCEPT !.j = r.j + 1, !.slugifyCalls = r.slugifyCalls + 2]
           ELSE IF r.renderFilter = "none"
                THEN Throw([r EXCEPT !.slugifyCalls = r.slugifyCalls + 2], "TypeError")
           ELSE Suspend([r EXCEPT !.slugifyCalls = r.slugifyCalls + 2],
                        [src |-> component.rawInput, lang |-> templateLang(r.lang),
                         data |-> renderData(component, item),
                         item |-> r.k, component |-> r.j, filter |-> r.renderFilter])]
  /\ UNCHANGED <<this, host>>

NoMatchPushesEmpty(r) ==
  [r EXCEPT !.k = r.k + 1, !.j = 1,
            !.renderedComponents = Append(r.renderedComponents, EmptyString)]

\* The position after the inner loop ends without a match: the next item, nothing
\* pushed.
NoMatch(r) == [r EXCEPT !.k = r.k + 1, !.j = 1]

\* Line 116: the inner loop ends without a match; line 114 takes the next item.
NextItem(c) ==
  /\ call[c].pc = "scan"
  /\ call[c].k <= Len(call[c].validItems)
  /\ call[c].j > Len(collections(this).components)
  /\ call' = [call EXCEPT ![c] = NoMatch(@)]
  /\ UNCHANGED <<this, host>>

Pending(r) == r.renderCalls[Len(r.renderCalls)]

\* Lines 123-125: the delegate's promise resolves; push and break.
RenderResolve(c) ==
  /\ call[c].pc = "await"
  /\ LET r == call[c]
         p == Pending(r)
     IN  /\ ~renderFilterThrows(p.src, p.lang, p.data)
         /\ call' = [call EXCEPT ![c] =
              AfterMatch([r EXCEPT !.pc = "scan",
                                   !.renderedComponents =
                                      Append(r.renderedComponents,
                                             renderFilter(p.src, p.lang, p.data))])]
  /\ UNCHANGED <<this, host>>

\* Line 123: the delegate throws or its promise rejects; nothing catches it.
RenderReject(c) ==
  /\ call[c].pc = "await"
  /\ LET p == Pending(call[c])
     IN  /\ renderFilterThrows(p.src, p.lang, p.data)
         /\ call' = [call EXCEPT ![c] = Throw(@, "RenderError")]
  /\ UNCHANGED <<this, host>>

SegmentsOfEveryCall(c) ==
  call["c1"].renderedComponents \o call["c2"].renderedComponents

\* const renderedComponents = []; (line 112, local to the call)
Segments(c) == call[c].renderedComponents

\* Line 132: the loop over validItems is over.
Finish(c) ==
  /\ call[c].pc = "scan"
  /\ call[c].k > Len(call[c].validItems)
  /\ call' = [call EXCEPT ![c] = Return(@, join(Segments(c)))]
  /\ UNCHANGED <<this, host>>

Next ==
  \E c \in CallIds :
    \/ Invoke(c)
    \/ Compare(c)
    \/ NextItem(c)
    \/ RenderResolve(c)
    \/ RenderReject(c)
    \/ Finish(c)

Spec == Init /\ [][Next]_vars

\* The event loop runs every continuation that can run, and a delegate invocation
\* that was started settles.
SpecLive == Init /\ [][Next]_vars /\ WF_vars(Next)

\* One item passed alone (call c1) and as a one-element array (call c2), with the
\* same language argument, in the same context.
InitPair ==
  /\ HostReady
  /\ this \in Contexts
  /\ \E item \in ItemSet, lang \in LangArgs :
       call = [c \in CallIds |-> IF c = "c1" THEN Called(Single(item), lang)
                                               ELSE Called(Array(<<item>>), lang)]

SpecPair == InitPair /\ [][Next]_vars

\* Titles and types: every string of up to MaxNameLen characters, upper and lower
\* case, with both delimiters.
NameChars == {"h", "H", " ", "-"}

Names == SeqsUpTo(NameChars, MaxNameLen)

\* One item passed alone to a collection of one definition, for every title and
\* every type.
InitMatch ==
  \E title \in Names, type \in Names, rawInput \in {"<p>{{ heading }}</p>", "{% broken"} :
    /\ HostReady
    /\ this = Context(TRUE, Collections(<<Component({<<"title", title>>}, rawInput)>>),
                      NoCollections)
    /\ call = [c \in CallIds |->
                 IF c = "c1" THEN Called(Single(Item({<<"type", type>>})), "njk")
                 ELSE Unused]

SpecMatch == InitMatch /\ [][Next]_vars

\* A name of at most MaxNameLen characters requested as it is (call c1) and
\* already slugified (call c2), against one definition with a shorter title.
InitSlug ==
  \E title \in SeqsUpTo(NameChars, MaxNameLen - 1), type \in Names,
     rawInput \in {"<p>{{ heading }}</p>", "{% broken"} :
    /\ HostReady
    /\ this = Context(TRUE, Collections(<<Component({<<"title", title>>}, rawInput)>>),
                      NoCollections)
    /\ call = [c \in CallIds |->
                 IF c = "c1" THEN Called(Single(Item({<<"type", type>>})), "njk")
                 ELSE Called(Single(Item({<<"type", slugifyFilter(type)>>})), "njk")]

SpecSlug == InitSlug /\ [][Next]_vars

\* Two calls in flight at once in one build: call c1 with up to MaxItems typed
\* items and no language argument, call c2 with fewer items and "njk", over the
\* same MaxComponents definitions.
InitConcurrent ==
  LET definitions ==
        {d \in ComponentSet : d.rawInput # "{# blank #}" /\ Has(d.data, "title")}
      typed == {i \in ItemSet : i.isObject /\ Has(i.fields, "type")}
  IN  /\ HostReady
      /\ \E l \in [1..MaxComponents -> definitions] :
           this = Context(TRUE, Collections(l), NoCollections)
      /\ \E e1 \in SeqsUpTo(typed, MaxItems), e2 \in SeqsUpTo(typed, MaxItems - 1) :
           call = [c \in CallIds |-> IF c = "c1" THEN Called(Array(e1), "undefined")
                                                   ELSE Called(Array(e2), "njk")]

SpecConcurrent == InitConcurrent /\ [][Next]_vars

(***************************************************************************)
(* The raw variant of the filter: renderComponent(item) returns the         *)
(* template source and leaves rendering to the calling template.           *)
(***************************************************************************)
RawCalled(items) == [Unused EXCEPT !.pc = "rawCalled", !.items = items]

\* The unrendered template source as returned text.
Source(rawInput) == <<Token(rawInput, "", {})>>

\* if (!item || !item.type): an array has no type
rawHasType(items) == ~items.isArray /\ HasType(items.item)

\* The guards of the raw variant, up to the start of its loop.
RawInvoke(c) ==
  /\ call[c].pc = "rawCalled"
  /\ LET r == call[c]
     IN  call' = [call EXCEPT ![c] =
           IF ~rawHasType(r.items) THEN Return(r, EmptyString)
           ELSE IF ~this.hasCtx THEN Throw(r, "TypeError")
           ELSE IF ~collections(this).present \/ ~collections(this).hasComponents
                THEN Return(r, EmptyString)
           ELSE [r EXCEPT !.pc = "rawScan", !.j = 1,
                          !.slugifyFilter = getFilter("slugify")]]
  /\ UNCHANGED <<this, host>>

\* One iteration of the loop: return component.rawInput on a slug match.
RawCompare(c) ==
  /\ call[c].pc = "rawScan"
  /\ call[c].j <= Len(collections(this).components)
  /\ LET r == call[c]
         component == collections(this).components[r.j]
     IN  call' = [call EXCEPT ![c] =
           IF ~HasTitle(component) THEN [r EXCEPT !.j = r.j + 1]
           ELSE IF r.slugifyFilter = "none" THEN Throw(r, "TypeError")
           ELSE IF ~SlugsEqualWith(r.slugifyFilter, component, r.items.item)
                THEN [r EXCEPT !.j = r.j + 1, !.slugifyCalls = r.slugifyCalls + 2]
           ELSE Return([r EXCEPT !.slugifyCalls = r.slugifyCalls + 2],
                       Source(component.rawInput))]
  /\ UNCHANGED <<this, host>>

\* The loop ends without a match: return ''.
RawFinish(c) ==
  /\ call[c].pc = "rawScan"
  /\ call[c].j > Len(collections(this).components)
  /\ call' = [call EXCEPT ![c] = Return(@, EmptyString)]
  /\ UNCHANGED <<this, host>>

InitRaw ==
  /\ HostReady
  /\ this \in Contexts
  /\ \E items \in Inputs :
       call = [c \in CallIds |-> IF c = "c1" THEN RawCalled(items) ELSE Unused]

NextRaw == \E c \in CallIds : RawInvoke(c) \/ RawCompare(c) \/ RawFinish(c)

SpecRaw == InitRaw /\ [][NextRaw]_vars

\* One item given to the rendering variant with a dialect (call c1) and to the raw
\* variant (call c2), in the same context.
InitRefine ==
  /\ HostReady
  /\ this \in Contexts
  /\ \E item \in ItemSet, lang \in {"njk", "liquid"} :
       call = [c \in CallIds |-> IF c = "c1" THEN Called(Single(item), lang)
                                               ELSE RawCalled(Single(item))]

NextRefine == Next \/ NextRaw

SpecRefine == InitRefine /\ [][NextRefine]_vars

\* Definitions the guard on component.data.title skips: no data, data without a
\* title, an empty title.
Untitled ==
  { [hasData |-> FALSE, data |-> {}, rawInput |-> "<div>{{ heading }}</div>"],
    Component({<<"heading", <<"Default">>>>}, "<div>{{ heading }}</div>"),
    Component({<<"title", EmptyString>>}, "<div>{{ heading }}</div>") }

\* A collection that holds such a definition before a titled one; one item given
\* to the rendering variant (call c1) and to the raw variant (call c2).
InitUntitled ==
  \E first \in Untitled, title \in SeqsUpTo(NameChars, MaxNameLen - 1),
     type \in SeqsUpTo(NameChars, MaxNameLen - 1),
     rawInput \in {"<p>{{ heading }}</p>", "{% broken"} :
    /\ HostReady
    /\ this = Context(TRUE,
                      Collections(<<first, Component({<<"title", title>>}, rawInput)>>),
                      NoCollections)
    /\ call = [c \in CallIds |->
                 IF c = "c1" THEN Called(Single(Item({<<"type", type>>})), "njk")
                 ELSE RawCalled(Single(Item({<<"type", type>>})))]

SpecUntitled == InitUntitled /\ [][NextRefine]_vars

\* The two setups of a configuration file that adds the plugin twice.
SetupIds == {"first", "second"}

Environments == {"undefined", "production", "development"}

\* Before the plugin is added: the host may have no plugins list, an empty one,
\* or one that holds the render plugin already.
InitSetup ==
  /\ this = Context(TRUE, NoCollections, NoCollections)
  /\ call = [c \in CallIds |-> Unused]
  /\ \E hasPlugins \in BOOLEAN, plugins \in {<< >>, <<"EleventyRenderPlugin">>} :
       /\ (~hasPlugins => plugins = << >>)
       /\ eleventyConfig = FreshConfig(hasPlugins, plugins)
  /\ env \in Environments
  /\ defaultOptions = DefaultOptions
  /\ setups = << >>
  /\ page = [templateSyntax |-> "njk"]

\* plugin.js lines 31-58: eleventyComponentsPlugin(eleventyConfig, userOptions)
eleventyComponentsPlugin(userOptions) ==
  /\ Len(setups) < Cardinality(SetupIds)
  /\ LET options == mergeOptions(defaultOptions, userOptions)
     IN  /\ eleventyConfig' = configured(eleventyConfig, options, env)
         /\ setups' = Append(setups, Setup(eleventyConfig, userOptions, options))
  /\ UNCHANGED <<this, call, env, defaultOptions, page>>

NextSetup == \E userOptions \in UserOptions : eleventyComponentsPlugin(userOptions)

SpecSetup == InitSetup /\ [][NextSetup]_vars

(***************************************************************************)
(* A build: the host evaluates the registered collections and hands them   *)
(* to the templates, whose filter calls read collections.components.       *)
(***************************************************************************)
\* The positions of the collections registered under a name.
registeredAs(config, name) ==
  {n \in 1..Len(config.collections) : config.collections[n].name = name}

\* The items the host holds under collections[name] (the last registration).
hostCollection(config, name) ==
  LET at == registeredAs(config, name)
  IN  collectionItems(config.collections[CHOOSE n \in at : \A m \in at : m <= n])

\* `this` of a filter call in a template: this.ctx.collections holds every
\* registered collection; the filter reads its `components` property.
hostContext(config) ==
  Context(TRUE,
          IF registeredAs(config, "components") = {} THEN CollectionsWithoutComponents
          ELSE Collections(hostCollection(config, "components")),
          NoCollections)

\* The items the templates of the build pass to the filter.
BuildItems ==
  {Item({<<"type", type>>}) : type \in {<<"h", "-", "i">>, <<"z">>, <<"i">>}}

InitBuild ==
  /\ this = Context(TRUE, NoCollections, NoCollections)
  /\ call = [c \in CallIds |-> Unused]
  /\ eleventyConfig = FreshConfig(TRUE, <<"EleventyRenderPlugin">>)
  /\ env = "undefined"
  /\ defaultOptions = DefaultOptions
  /\ setups = << >>
  /\ page = [templateSyntax |-> "njk"]

\* The configuration file adds the plugin; the build has not started.
AddPlugin(userOptions) ==
  /\ call["c1"].pc = "unused"
  /\ eleventyComponentsPlugin(userOptions)

\* The build starts: a template calls the filter with one item.
StartBuild(item) ==
  /\ Len(setups) >= 1
  /\ call["c1"].pc = "unused"
  /\ this' = hostContext(eleventyConfig)
  /\ call' = [call EXCEPT !["c1"] = Called(Single(item), "njk")]
  /\ UNCHANGED host

NextBuild ==
  \/ \E userOptions \in UserOptions : AddPlugin(userOptions)
  \/ \E item \in BuildItems : StartBuild(item)
  \/ Next

SpecBuild == InitBuild /\ [][NextBuild]_vars

\* A host on which slugify may not be registered yet and renderContent is not;
\* the build's collection holds two definitions whose titles differ in a leading
\* separator.
InitResolve ==
  /\ this = Context(TRUE,
                    Collections(<< Component({<<"title", <<" ", "h">>>>}, "<p>{{ heading }}</p>"),
                                   Component({<<"title", <<"h">>>>}, "{% broken") >>),
                    NoCollections)
  /\ call = [c \in CallIds |-> Unused]
  /\ \E implementation \in {"none", "builtin"} :
       eleventyConfig = registerFilter(FreshConfig(TRUE, << >>), "slugify", implementation)
  /\ env = "undefined"
  /\ defaultOptions = DefaultOptions
  /\ setups = << >>
  /\ page = [templateSyntax |-> "njk"]

\* The configuration file adds the plugin, once.
AddPluginOnce(userOptions) ==
  /\ setups = << >>
  /\ AddPlugin(userOptions)

\* After the plugin was added, the configuration file registers a filter under the
\* name of one of the two delegates.
RegisterFilter(name, implementation) ==
  /\ Len(setups) >= 1
  /\ eleventyConfig' = registerFilter(eleventyConfig, name, implementation)
  /\ UNCHANGED <<this, call, env, defaultOptions, setups, page>>

\* A template calls the filter with one item; call c2 is made after call c1.
CallFilter(c, item) ==
  /\ Len(setups) >= 1
  /\ call[c].pc = "unused"
  /\ c = "c2" => call["c1"].pc # "unused"
  /\ call' = [call EXCEPT ![c] = Called(Single(item), "njk")]
  /\ UNCHANGED <<this, host>>

NextResolve ==
  \/ \E userOptions \in {[k \in {} |-> TRUE], [enableRenderPlugin |-> FALSE]} :
       AddPluginOnce(userOptions)
  \/ \E name \in {"slugify", "renderContent"}, implementation \in {"builtin", "custom"} :
       RegisterFilter(name, implementation)
  \/ \E c \in CallIds, type \in {<<"h">>, <<"z">>} : CallFilter(c, Item({<<"type", type>>}))
  \/ Next

SpecResolve == InitResolve /\ [][NextResolve]_vars

(***************************************************************************)
(* Properties.  The reference definitions below state what a call is       *)
(* expected to do in terms of its arguments and the context alone.         *)
(***************************************************************************)
Done(c) == call[c].pc \in {"returned", "rejected"}

\* The context offers a components collection.
Offered == this.hasCtx /\ collections(this).present /\ collections(this).hasComponents

Definitions == collections(this).components

Typed(item) == item.isObject /\ Has(item.fields, "type") /\ Get(item.fields, "type") # << >>

Titled(d) == d.hasData /\ Has(d.data, "title") /\ Get(d.data, "title") # << >>

Matches(d, item) ==
  Titled(d) /\ slugifyFilter(Get(d.data, "title")) = slugifyFilter(Get(item.fields, "type"))

HasMatch(item) == \E n \in 1..Len(Definitions) : Matches(Definitions[n], item)

FirstMatch(item) ==
  CHOOSE n \in 1..Len(Definitions) :
    /\ Matches(Definitions[n], item)
    /\ \A m \in 1..(n - 1) : ~Matches(Definitions[m], item)

\* The items of the first argument, in input order.
Given(c) ==
  IF call[c].items.isArray THEN call[c].items.elems ELSE <<call[c].items.item>>

Selected(item) == Definitions[FirstMatch(item)]

Fails(c, item) ==
  renderFilterThrows(Selected(item).rawInput, templateLang(call[c].lang), item.fields)

\* render(i): what the delegate makes of the definition selected for item i.
Rendered(c, item) ==
  renderFilter(Selected(item).rawInput, templateLang(call[c].lang), item.fields)

\* s[1] + "\n" + ... + "\n" + s[n], built from the right.
RECURSIVE NewlineJoined(_)
NewlineJoined(segments) ==
  IF Len(segments) = 0 THEN << >>
  ELSE IF Len(segments) = 1 THEN segments[1]
  ELSE NewlineJoined(SubSeq(segments, 1, Len(segments) - 1))
         \o <<Newline>> \o segments[Len(segments)]

\* C1: for an item with a truthy type the delegate is invoked only for the first
\* definition, in collection order, whose slugified title equals the slugified
\* type, at most once per item, and a call is rejected by a render only when the
\* delegate fails on that first definition (duplicates raise no error).
C1_FirstMatchWins ==
  \A c \in CallIds :
    LET r == call[c]
    IN  /\ \A n \in 1..Len(r.renderCalls) :
             LET inv == r.renderCalls[n]
                 item == r.validItems[inv.item]
             IN  /\ Typed(item) /\ HasMatch(item)
                 /\ inv.component = FirstMatch(item)
                 /\ inv.src = Definitions[FirstMatch(item)].rawInput
                 /\ \A m \in 1..Len(r.renderCalls) :
                      r.renderCalls[m].item = inv.item => m = n
        /\ (r.pc = "rejected" /\ r.error = "RenderError") =>
             LET inv == r.renderCalls[Len(r.renderCalls)]
             IN  renderFilterThrows(Definitions[FirstMatch(r.validItems[inv.item])].rawInput,
                                    inv.lang, inv.data)

\* A call has returned after rendering an item that two definitions match: only
\* the first was rendered.
C1_Witness ==
  \E c \in CallIds :
    /\ call[c].pc = "returned"
    /\ Len(call[c].renderCalls) = 1
    /\ Len(Definitions) = 2
    /\ \A n \in 1..2 : Matches(Definitions[n], call[c].validItems[1])
    /\ Definitions[1].rawInput # Definitions[2].rawInput
    /\ call[c].renderCalls[1].src = Definitions[1].rawInput

Defaults(d) == {p \in d.data : p[1] # "title"}

Merged(defaults, fields) == fields \cup {p \in defaults : ~Has(fields, p[1])}

\* C2: the data handed to the render delegate is the pointwise union of the
\* matched definition's default fields and the item's fields, the item's value
\* winning for a field present in both.
C2_MergedContext ==
  \A c \in CallIds :
    \A n \in 1..Len(call[c].renderCalls) :
      LET inv == call[c].renderCalls[n]
      IN  inv.data = Merged(Defaults(Definitions[inv.component]),
                            call[c].validItems[inv.item].fields)

\* C3: an array of items that each have a matching definition returns
\* render(i1) + "\n" + ... + "\n" + render(in), in input order.
C3_OrderedNewlineJoin ==
  \A c \in CallIds :
    LET r == call[c]
    IN  ( /\ r.pc = "returned"
          /\ r.items.isArray
          /\ Offered
          /\ \A n \in 1..Len(r.items.elems) :
               Typed(r.items.elems[n]) /\ HasMatch(r.items.elems[n]) )
        => r.result = NewlineJoined([n \in 1..Len(r.items.elems) |->
                                       Rendered(c, r.items.elems[n])])

\* Two matching items with different outputs were rendered and joined.
C3_Witness ==
  \E c \in CallIds :
    LET r == call[c]
    IN  /\ r.pc = "returned"
        /\ r.items.isArray
        /\ Len(r.items.elems) = 2
        /\ Offered
        /\ \A n \in 1..2 : Typed(r.items.elems[n]) /\ HasMatch(r.items.elems[n])
        /\ Rendered(c, r.items.elems[1]) # Rendered(c, r.items.elems[2])
        /\ Rendered(c, r.items.elems[1]) # << >>
        /\ Len(r.result) = 3

\* The first argument is falsy, one item without a truthy type, or an array with
\* no element that has a truthy type.
NothingToRender(c) ==
  LET a == call[c].items
  IN  IF a.isArray THEN \A n \in 1..Len(a.elems) : ~Typed(a.elems[n])
      ELSE ~Typed(a.item)

\* C4: a call whose input has no item with a truthy type returns "" and invokes
\* neither slugify nor the render delegate, in every calling context.
C4_NoTypedItemReturnsEmpty ==
  \A c \in CallIds :
    NothingToRender(c) =>
      /\ call[c].pc \in {"unused", "called", "returned"}
      /\ call[c].result = EmptyString
      /\ call[c].slugifyCalls = 0
      /\ call[c].renderCalls = << >>

\* An array holding null and an item without a type has returned, in a context
\* whose collection would match a typed item.
C4_Witness ==
  \E c \in CallIds :
    /\ call[c].pc = "returned"
    /\ NothingToRender(c)
    /\ call[c].items.isArray
    /\ \E n \in 1..Len(call[c].items.elems) : call[c].items.elems[n].isObject
    /\ \E n \in 1..Len(call[c].items.elems) : ~call[c].items.elems[n].isObject
    /\ Offered
    /\ \E n \in 1..Len(Definitions) : Titled(Definitions[n])

\* C5: an item with a truthy type that no definition matches never reaches the
\* render delegate, and a call made for such an item alone returns "".
C5_NoMatchReturnsEmpty ==
  \A c \in CallIds :
    LET r == call[c]
    IN  Offered =>
          /\ \A n \in 1..Len(r.renderCalls) :
               HasMatch(r.validItems[r.renderCalls[n].item])
          /\ ( /\ ~r.items.isArray
               /\ Typed(r.items.item)
               /\ ~HasMatch(r.items.item) )
             => /\ r.pc \in {"called", "scan", "returned"}
                /\ r.result = EmptyString
                /\ r.renderCalls = << >>

\* A typed item was compared with a titled definition of another slug, and the
\* call returned.
C5_Witness ==
  \E c \in CallIds :
    /\ call[c].pc = "returned"
    /\ ~call[c].items.isArray
    /\ Typed(call[c].items.item)
    /\ Offered
    /\ ~HasMatch(call[c].items.item)
    /\ call[c].slugifyCalls = 4

\* The delegate has failed in call c.
DelegateFailed(c) ==
  \E n \in 1..Len(call[c].renderCalls) :
    LET inv == call[c].renderCalls[n]
    IN  call[c].pc # "await" /\ renderFilterThrows(inv.src, inv.lang, inv.data)

\* C6: when the render delegate throws or rejects for a matched item, the call
\* is not rejected: no exception propagates to the caller of the filter.
C6_DelegateFailureIsSwallowed ==
  \A c \in CallIds : DelegateFailed(c) => call[c].pc # "rejected"

\* The single-item result R(i) in a context that offers a collection.
Alone(c, item) ==
  IF Typed(item) /\ HasMatch(item) THEN Rendered(c, item) ELSE EmptyString

\* C7 as stated: the result of a multi-item call is the newline-join of the
\* single-item results of every item of the input, the empty results of
\* untyped and unmatched items included.
C7_JoinOfEveryItem ==
  \A c \in CallIds :
    (call[c].pc = "returned" /\ Offered) =>
      call[c].result = NewlineJoined([n \in 1..Len(Given(c)) |-> Alone(c, Given(c)[n])])

Contributes(item) == Typed(item) /\ HasMatch(item)

\* C7 amended: the result of a call that returns is the newline-join of the
\* single-item results of the items that have a truthy type and a matching
\* definition, in input order; an untyped or unmatched item contributes neither
\* a segment nor a separator, and a call for one item alone returns R(i).
C7_JoinOfMatchedItems ==
  \A c \in CallIds :
    (call[c].pc = "returned" /\ Offered) =>
      LET contributing == SelectSeq(Given(c), Contributes)
      IN  /\ call[c].result =
               NewlineJoined([n \in 1..Len(contributing) |-> Alone(c, contributing[n])])
          /\ ~call[c].items.isArray => call[c].result = Alone(c, call[c].items.item)

\* A returned call of two items, the first rendered and the second unmatched or
\* untyped: the result is the first item's output alone.
C7_Witness ==
  \E c \in CallIds :
    LET r == call[c]
    IN  /\ r.pc = "returned"
        /\ Offered
        /\ r.items.isArray
        /\ Len(r.items.elems) = 2
        /\ Contributes(r.items.elems[1])
        /\ r.items.elems[2].isObject
        /\ Typed(r.items.elems[2])
        /\ ~HasMatch(r.items.elems[2])
        /\ r.result # EmptyString
        /\ r.result = Rendered(c, r.items.elems[1])

\* C8: when the delegate fails for one item of a multi-item call, the call still
\* returns, with the outputs of the other matching items in input order.
C8_OtherItemsSurviveFailure ==
  \A c \in CallIds :
    LET ok(item) == Contributes(item) /\ ~Fails(c, item)
        others == SelectSeq(Given(c), ok)
    IN  ( /\ Done(c)
          /\ Offered
          /\ call[c].items.isArray
          /\ \E n \in 1..Len(Given(c)) : Contributes(Given(c)[n]) /\ Fails(c, Given(c)[n]) )
        => /\ call[c].pc = "returned"
           /\ call[c].result =
                NewlineJoined([n \in 1..Len(others) |-> Rendered(c, others[n])])

\* C9: in a context that offers no definitions collection (no ctx object, no
\* collections on ctx or this, or collections without a components entry) the
\* call returns "" and does not throw.
C9_MissingCollectionReturnsEmpty ==
  \A c \in CallIds :
    ~Offered => /\ call[c].pc # "rejected"
                /\ call[c].result = EmptyString

\* What a caller and the host observe of a call.
Observed(c) ==
  [pc |-> call[c].pc, result |-> call[c].result, error |-> call[c].error,
   renderCalls |-> [n \in 1..Len(call[c].renderCalls) |->
                      [src |-> call[c].renderCalls[n].src,
                       lang |-> call[c].renderCalls[n].lang,
                       data |-> call[c].renderCalls[n].data]]]

\* C10: an item passed alone and the same item passed as a one-element array,
\* with the same language, end the same way (returned or rejected), with the
\* same string and the same delegate invocations.
C10_SingleEqualsOneElementArray ==
  (Done("c1") /\ Done("c2")) => Observed("c1") = Observed("c2")

\* Both calls have returned the same non-empty rendering.
C10_Witness ==
  /\ ~call["c1"].items.isArray
  /\ call["c2"].items = Array(<<call["c1"].items.item>>)
  /\ call["c1"].pc = "returned"
  /\ call["c2"].pc = "returned"
  /\ call["c1"].result # EmptyString
  /\ Len(call["c2"].renderCalls) = 1

\* The words of a name: its maximal runs of letters, in lower case.
LowerCase == [ch \in {"h", "H", "i", "I", "z"} |->
                IF ch = "H" THEN "h" ELSE IF ch = "I" THEN "i" ELSE ch]

RECURSIVE WordsFrom(_, _, _)
WordsFrom(s, n, word) ==
  LET closed == IF word = << >> THEN << >> ELSE <<word>>
  IN  IF n > Len(s) THEN closed
      ELSE IF s[n] \in DOMAIN LowerCase
           THEN WordsFrom(s, n + 1, Append(word, LowerCase[s[n]]))
           ELSE closed \o WordsFrom(s, n + 1, << >>)

Words(s) == WordsFrom(s, 1, << >>)

\* C11: matching is insensitive to case and delimiters on both sides: a typed
\* item is rendered with a titled definition exactly when title and type have
\* the same words up to case, whatever delimiters separate them.
C11_CaseAndDelimiterInsensitive ==
  \A c \in CallIds :
    ( /\ Done(c)
      /\ Offered
      /\ Len(Definitions) = 1
      /\ Titled(Definitions[1])
      /\ ~call[c].items.isArray
      /\ Typed(call[c].items.item) )
    => ( Len(call[c].renderCalls) = 1
           <=> Words(Get(Definitions[1].data, "title"))
                 = Words(Get(call[c].items.item.fields, "type")) )

\* A definition titled "H h" was rendered for the type "h-h".
C11_Witness ==
  \E c \in CallIds :
    /\ call[c].pc = "returned"
    /\ Len(Definitions) = 1
    /\ Titled(Definitions[1])
    /\ Get(Definitions[1].data, "title") = <<"H", " ", "h">>
    /\ ~call[c].items.isArray
    /\ Typed(call[c].items.item)
    /\ Get(call[c].items.item.fields, "type") = <<"h", "-", "h">>
    /\ Len(call[c].renderCalls) = 1
    /\ call[c].result # EmptyString

ConfigBefore(n) == setups[n].before

ConfigAfter(n) == IF n < Len(setups) THEN setups[n + 1].before ELSE eleventyConfig

\* The documented defaults (README, Default Options).
Documented ==
  [componentsDir |-> "src/components/*.njk",
   cssBundleDir |-> "./assets/styles/",
   jsBundleDir |-> "./assets/scripts/",
   collectionName |-> "components",
   enableRenderPlugin |-> TRUE,
   enableBundles |-> TRUE,
   excludeFromProduction |-> TRUE]

\* The value of option k that setup n is to work with.
Effective(n, k) ==
  IF k \in DOMAIN setups[n].userOptions THEN setups[n].userOptions[k] ELSE Documented[k]

\* The entries a setup appended to a list of the configuration.
Appended(before, after) == SubSeq(after, Len(before) + 1, Len(after))

Extends(before, after) ==
  Len(before) <= Len(after) /\ SubSeq(after, 1, Len(before)) = before

\* C13: when the templateLang argument is omitted, the dialect passed to the
\* render delegate is the language of the calling template.
C13_OmittedLangIsCallersLanguage ==
  \A c \in CallIds :
    call[c].lang = "undefined" =>
      \A n \in 1..Len(call[c].renderCalls) :
        call[c].renderCalls[n].lang = page.templateSyntax

\* C14: a setup registers exactly one collection, named options.collectionName,
\* whose items are the host's getFilteredByGlob(options.componentsDir) result in
\* the host's order.
C14_OneCollectionUnderConfiguredName ==
  \A n \in 1..Len(setups) :
    LET before == ConfigBefore(n).collections
        after == ConfigAfter(n).collections
    IN  /\ Extends(before, after)
        /\ Len(after) = Len(before) + 1
        /\ after[Len(after)].name = Effective(n, "collectionName")
        /\ collectionItems(after[Len(after)]) = HostFiles[Effective(n, "componentsDir")]

\* A setup with a custom collection name over the default glob, which holds
\* several files.
C14_Witness ==
  /\ Len(setups) = 1
  /\ "collectionName" \in DOMAIN setups[1].userOptions
  /\ "componentsDir" \notin DOMAIN setups[1].userOptions
  /\ eleventyConfig.collections[1].name = "widgets"
  /\ Len(collectionItems(eleventyConfig.collections[1])) = 3

\* C15: a setup adds the componentsDir glob to the host's ignores exactly when
\* excludeFromProduction is truthy and ELEVENTY_ENV is "production"; otherwise
\* it leaves the ignores unchanged.
C15_IgnoredOnlyInProduction ==
  \A n \in 1..Len(setups) :
    ConfigAfter(n).ignores =
      ConfigBefore(n).ignores \cup
        (IF Effective(n, "excludeFromProduction") /\ env = "production"
         THEN {Effective(n, "componentsDir")} ELSE {})

\* Two setups in production, one excluding its glob and one that opted out.
C15_Witness ==
  /\ Len(setups) = 2
  /\ env = "production"
  /\ Effective(1, "excludeFromProduction")
  /\ ~Effective(2, "excludeFromProduction")
  /\ Effective(2, "componentsDir") # Effective(1, "componentsDir")
  /\ eleventyConfig.ignores = {Effective(1, "componentsDir")}

\* C16: a setup adds the render plugin exactly when enableRenderPlugin is truthy
\* and the render plugin is not already in the configuration's plugins list.
C16_RenderPluginAddedOnce ==
  \A n \in 1..Len(setups) :
    LET before == ConfigBefore(n)
        already == before.hasPlugins
                     /\ \E m \in 1..Len(before.plugins) :
                          before.plugins[m] = "EleventyRenderPlugin"
    IN  /\ Extends(before.added, ConfigAfter(n).added)
        /\ Appended(before.added, ConfigAfter(n).added) =
             IF Effective(n, "enableRenderPlugin") /\ ~already
             THEN <<"EleventyRenderPlugin">> ELSE << >>

\* Two setups that both enable the render plugin: the first added it, the second
\* found it and did not.
C16_Witness ==
  /\ Len(setups) = 2
  /\ Effective(1, "enableRenderPlugin")
  /\ Effective(2, "enableRenderPlugin")
  /\ setups[1].before.hasPlugins
  /\ setups[1].before.plugins = << >>
  /\ eleventyConfig.added = <<"EleventyRenderPlugin">>

\* C17: with enableBundles truthy a setup registers exactly two bundles, the
\* CSS one written to cssBundleDir and the JS one written to jsBundleDir; with
\* enableBundles falsy it registers none; either way it registers its
\* collection and its filter.
C17_TwoBundlesOrNone ==
  \A n \in 1..Len(setups) :
    LET before == ConfigBefore(n)
        after == ConfigAfter(n)
    IN  /\ Extends(before.bundles, after.bundles)
        /\ Appended(before.bundles, after.bundles) =
             IF Effective(n, "enableBundles")
             THEN << [name |-> "componentCss",
                      toFileDirectory |-> Effective(n, "cssBundleDir")],
                     [name |-> "componentJs",
                      toFileDirectory |-> Effective(n, "jsBundleDir")] >>
             ELSE << >>
        /\ Len(after.collections) = Len(before.collections) + 1
        /\ after.filters = Append(before.filters, "renderComponent")

\* A setup without bundles followed by one with bundles in custom directories.
C17_Witness ==
  /\ Len(setups) = 2
  /\ ~Effective(1, "enableBundles")
  /\ Effective(2, "enableBundles")
  /\ Effective(2, "cssBundleDir") = "./css/"
  /\ Len(eleventyConfig.bundles) = 2
  /\ Len(eleventyConfig.filters) = 2

\* C18: the bundles a setup registers are the ones the documented template
\* syntax addresses: getBundleFileUrl "css" finds the bundle written to
\* cssBundleDir and getBundleFileUrl "js" the one written to jsBundleDir.
C18_DocumentedBundleNamesResolve ==
  \A n \in 1..Len(setups) :
    Effective(n, "enableBundles") =>
      /\ \E b \in getBundleFileUrl(ConfigAfter(n), "css") :
           ConfigAfter(n).bundles[b].toFileDirectory = Effective(n, "cssBundleDir")
      /\ \E b \in getBundleFileUrl(ConfigAfter(n), "js") :
           ConfigAfter(n).bundles[b].toFileDirectory = Effective(n, "jsBundleDir")

C20_RawReturnsFirstMatchSource ==
  \A c \in CallIds :
    LET r == call[c]
        single == ~r.items.isArray /\ Typed(r.items.item)
    IN  /\ r.renderCalls = << >>
        /\ r.pc # "rejected"
        /\ r.pc = "returned" =>
             r.result = IF single /\ Offered /\ HasMatch(r.items.item)
                        THEN <<Token(Selected(r.items.item).rawInput, "", {})>>
                        ELSE << >>

\* The type string of a call made with one item that carries a type field.
TypeOf(c) == Get(call[c].items.item.fields, "type")

HasTypeField(c) ==
  ~call[c].items.isArray /\ call[c].items.item.isObject
    /\ Has(call[c].items.item.fields, "type")

\* The definitions a call handed to the render delegate, in order.
Selection(c) == [n \in 1..Len(call[c].renderCalls) |-> call[c].renderCalls[n].component]

\* Every name the state holds: the requested types and the titles on offer.
NamesInUse ==
  {TypeOf(c) : c \in {d \in CallIds : HasTypeField(d)}}
    \cup {Get(Definitions[n].data, "title") :
            n \in {m \in 1..Len(Definitions) : Titled(Definitions[m])}}

Idempotent == \A N \in NamesInUse : slugifyFilter(slugifyFilter(N)) = slugifyFilter(N)

\* Call d requests the slug of the name call c requests.
RequestsSlugOf(d, c) ==
  HasTypeField(c) /\ HasTypeField(d) /\ TypeOf(d) = slugifyFilter(TypeOf(c))

\* C21 as stated: normalization is idempotent, and a request carrying the slug of
\* a name selects the same definition as a request carrying the name, for every
\* name.
C21_SlugRequestSelectsTheSame ==
  /\ Idempotent
  /\ \A c, d \in CallIds :
       (RequestsSlugOf(d, c) /\ Done(c) /\ Done(d)) => Selection(d) = Selection(c)

\* C21, amended: normalization is idempotent, and a request carrying the slug of
\* a name selects the same definition as a request carrying the name whenever
\* that slug is not the empty string (a request whose type is the empty string is
\* dropped before any comparison, while a name such as " " is compared and matches
\* a title such as "-").
C21_NonEmptySlugRequestSelectsTheSame ==
  /\ Idempotent
  /\ \A c, d \in CallIds :
       ( /\ RequestsSlugOf(d, c)
         /\ slugifyFilter(TypeOf(c)) # << >>
         /\ Done(c) /\ Done(d) )
       => Selection(d) = Selection(c)

\* A name that is not its own slug and its slug were both requested, and both
\* requests selected the definition.
C21_Witness ==
  /\ RequestsSlugOf("c2", "c1")
  /\ TypeOf("c1") # TypeOf("c2")
  /\ Done("c1") /\ Done("c2")
  /\ Selection("c1") = <<1>>
  /\ Selection("c2") = <<1>>
  /\ Get(Definitions[1].data, "title") # TypeOf("c1")

\* The delegate invocations of a call that have settled.
Settled(c) ==
  Len(call[c].renderedComponents)
    + (IF call[c].pc = "rejected" /\ call[c].error = "RenderError" THEN 1 ELSE 0)

InFlight(c) == Len(call[c].renderCalls) - Settled(c)

\* C22: the render of the next item is not started until the render of the item
\* before it has completed: at most one delegate invocation of a call is in
\* flight, and the delegate invocations of a call start in input order.
C22_RendersAreSequential ==
  \A c \in CallIds :
    LET r == call[c]
    IN  /\ Settled(c) <= Len(r.renderCalls)
        /\ InFlight(c) <= 1
        /\ InFlight(c) = 1 <=> r.pc = "await"
        /\ \A n \in 1..Len(r.renderCalls) : \A m \in 1..(n - 1) :
             r.renderCalls[m].item < r.renderCalls[n].item

\* The render of the second of two items is in flight, after the first completed.
C22_Witness ==
  \E c \in CallIds :
    /\ call[c].pc = "await"
    /\ Len(call[c].renderCalls) = 2
    /\ Len(call[c].renderedComponents) = 1
    /\ call[c].items.isArray
    /\ call[c].renderCalls[1].item = 1
    /\ call[c].renderCalls[2].item = 2

\* The items of a call that are rendered when the call runs alone.
Own(c) == SelectSeq(Given(c), Contributes)

\* The outcome of call c when it runs alone in the same context.
AloneFails(c) == \E n \in 1..Len(Own(c)) : Fails(c, Own(c)[n])

AloneResult(c) == NewlineJoined([n \in 1..Len(Own(c)) |-> Rendered(c, Own(c)[n])])

\* C23: when calls interleave at the delegate awaits, each call ends as it would
\* running alone: it is rejected exactly when one of its own renders fails, and
\* otherwise returns the join of its own rendered segments, none of another call.
C23_InterleavedCallsAreIndependent ==
  \A c \in CallIds :
    (Offered /\ Done(c)) =>
      /\ call[c].pc = "rejected" <=> AloneFails(c)
      /\ call[c].pc = "returned" => call[c].result = AloneResult(c)

\* Call c1 has returned the join of its two renders while call c2, which started a
\* render of its own in between, is still suspended at its await.
C23_Witness ==
  /\ call["c1"].pc = "returned"
  /\ Len(call["c1"].renderCalls) = 2
  /\ Len(call["c1"].result) = 3
  /\ call["c2"].pc = "await"
  /\ Len(call["c2"].renderCalls) = 1
  /\ call["c2"].renderCalls[1].src # call["c1"].renderCalls[2].src

\* C24: no step of renderComponent changes the components collection, a
\* component definition or the request items the call was given.
C24_InputsAreNotMutated ==
  [][ /\ this' = this
      /\ \A c \in CallIds : call'[c].items = call[c].items ]_vars

\* A call has rendered one element of a two-element array and dropped the other,
\* and returned.
C24_Witness ==
  \E c \in CallIds :
    /\ call[c].pc = "returned"
    /\ call[c].items.isArray
    /\ Len(call[c].items.elems) = 2
    /\ Len(call[c].validItems) = 1
    /\ Len(call[c].renderCalls) = 1
    /\ call[c].result # EmptyString

\* The options of the setup whose filter registration is in force.
InForce == setups[Len(setups)].options

\* The collection the plugin registered under the configured name.
Registered == hostCollection(eleventyConfig, InForce.collectionName)

\* The item of a build's call has a match among the given definitions.
MatchesAmong(definitions, item) ==
  \E n \in 1..Len(definitions) : Matches(definitions[n], item)

\* C25: the collection renderComponent scans is the one the plugin registered
\* under the configured collectionName, so that a request finds a match under a
\* custom name exactly when the registered definitions hold one.
C25_LooksUpConfiguredCollection ==
  \A c \in CallIds :
    call[c].pc # "unused" =>
      /\ Offered
      /\ Definitions = Registered
      /\ Done(c) =>
           (call[c].renderCalls # << >> <=> MatchesAmong(Registered, call[c].items.item))

\* The item given to both variants has a truthy type and a matching definition in
\* a collection on offer.
RefineMatched ==
  LET item == call["c1"].items.item
  IN  Typed(item) /\ collections(this).present /\ collections(this).hasComponents
        /\ HasMatch(item)

\* What the render delegate makes of the raw variant's result, against the
\* outcome of the rendering variant.
RenderingIsDelegateOfRaw ==
  LET item == call["c1"].items.item
      d == call["c1"].lang
      src == call["c2"].result[1].src
  IN  /\ call["c2"].pc = "returned"
      /\ call["c2"].result # EmptyString
      /\ IF renderFilterThrows(src, d, item.fields)
         THEN call["c1"].pc = "rejected" /\ call["c1"].error = "RenderError"
         ELSE call["c1"].pc = "returned"
                /\ call["c1"].result = renderFilter(src, d, item.fields)

\* Neither variant got as far as a result: the composition fails as the rendering
\* variant does.
BothFailAlike ==
  /\ call["c1"].pc = "rejected" /\ call["c2"].pc = "rejected"
  /\ call["c1"].error = call["c2"].error
  /\ call["c1"].renderCalls = << >>

BothReturnEmpty ==
  \A c \in CallIds : call[c].pc = "returned" /\ call[c].result = EmptyString

\* C26: for one item with a matching definition and a dialect d, the rendering
\* variant ends as the render delegate does on (raw variant's result, d, item);
\* for an item without a match both variants return "".
C26_RenderingRefinesRaw ==
  (Done("c1") /\ Done("c2")) =>
    IF RefineMatched THEN RenderingIsDelegateOfRaw \/ BothFailAlike
    ELSE BothReturnEmpty

\* C27: in any call the render delegate is invoked exactly once for each item
\* that has a truthy type and a matching definition and for no other item, with
\* the rawInput of the selected definition as source and one dialect for all.
C27_OneRenderPerMatchedItem ==
  \A c \in CallIds :
    Done(c) =>
      LET r == call[c]
      IN  /\ Len(r.renderCalls) = Len(Own(c))
          /\ \A n \in 1..Len(r.renderCalls) :
               /\ r.validItems[r.renderCalls[n].item] = Own(c)[n]
               /\ r.renderCalls[n].src = Selected(Own(c)[n]).rawInput
               /\ r.renderCalls[n].lang = r.renderCalls[1].lang

\* The position of the definition a finished call selected, 0 when none: the
\* rendering variant hands it to the delegate, the raw variant returns its source.
SelectedAt(c) ==
  IF call[c].renderCalls # << >> THEN call[c].renderCalls[1].component
  ELSE IF call[c].pc = "returned" /\ call[c].result # EmptyString /\ call[c].validItems = << >>
       THEN call[c].j
       ELSE 0

\* C28: a definition without data or without a truthy data.title is never
\* selected, whatever the type (a type whose slug is empty included), and the
\* scan goes on past it: a later matching definition is selected and the call
\* does not fail on the way.
C28_UntitledDefinitionsAreSkipped ==
  \A c \in CallIds :
    Done(c) =>
      LET item == call[c].items.item
      IN  /\ SelectedAt(c) # 0 => Titled(Definitions[SelectedAt(c)])
          /\ (Typed(item) /\ HasMatch(item)) => SelectedAt(c) = FirstMatch(item)
          /\ call[c].pc = "rejected" => call[c].error = "RenderError"

\* The type's slug is empty and the first definition's title is the empty string:
\* both variants went past it and selected the second definition.
C28_Witness ==
  /\ Done("c1") /\ Done("c2")
  /\ slugifyFilter(TypeOf("c1")) = EmptyString
  /\ Has(Definitions[1].data, "title")
  /\ SelectedAt("c1") = 2
  /\ SelectedAt("c2") = 2

\* The slug a slugify implementation makes of a name.
SlugUnder(implementation, name) ==
  IF implementation = "custom" THEN [n \in 1..Len(name) |->
                                       IF name[n] \in Letters THEN Lower(name[n]) ELSE "-"]
  ELSE slugifyFilter(name)

\* The first definition whose title has the slug of the type under an
\* implementation, 0 when there is none.
FirstUnder(implementation, type) ==
  LET hits == {n \in 1..Len(Definitions) :
                 /\ Titled(Definitions[n])
                 /\ SlugUnder(implementation, Get(Definitions[n].data, "title"))
                      = SlugUnder(implementation, type)}
  IN  IF hits = {} THEN 0 ELSE CHOOSE n \in hits : \A m \in hits : n <= m

\* Every setup registered the filter, whatever the host had registered.
SetupSucceeded ==
  \A n \in 1..Len(setups) :
    LET filters == ConfigAfter(n).filters
    IN  filters # << >> /\ filters[Len(filters)] = "renderComponent"

\* A call works with the delegates it resolved: comparisons by its slugify, renders
\* by its renderContent.
UsesResolved ==
  \A c \in CallIds :
    LET r == call[c]
    IN  /\ \A n \in 1..Len(r.renderCalls) : r.renderCalls[n].filter = r.renderFilter
        /\ r.renderCalls # << >> =>
             r.renderCalls[1].component = FirstUnder(r.slugifyFilter, TypeOf(c))

\* The step that resolves the delegates takes what the host has registered then.
ResolvedAtCall ==
  \A c \in CallIds :
    (call[c].pc = "called" /\ call'[c].pc = "scan") =>
      /\ call'[c].slugifyFilter = eleventyConfig.universalFilters["slugify"]
      /\ call'[c].renderFilter = eleventyConfig.universalFilters["renderContent"]

\* C29: the slugify and render delegates are resolved from the host at each call,
\* not at setup: a filter registered or replaced after setup and before a call is
\* the one the call uses, and setup succeeds when neither is registered yet.
C29_DelegatesResolvedAtCall ==
  /\ [](SetupSucceeded /\ UsesResolved)
  /\ [][ResolvedAtCall]_vars

\* The plugin was set up when neither delegate was registered; both were
\* registered afterwards, and a call compared and rendered with them.
C29_Witness ==
  /\ Len(setups) >= 1
  /\ setups[1].before.universalFilters = [slugify |-> "none", renderContent |-> "none"]
  /\ ~setups[1].options.enableRenderPlugin
  /\ \E c \in CallIds :
       /\ Done(c)
       /\ call[c].slugifyFilter = "custom"
       /\ call[c].renderCalls # << >>
       /\ call[c].renderCalls[1].filter = "custom"
       /\ call[c].renderCalls[1].component = 2

\* The slug comparisons a call has made (two slugify calls each).
Comparisons(c) == call[c].slugifyCalls \div 2

\* The comparisons one item costs when the scan stops at its first match: the
\* titled definitions up to and including the first match, all of them when
\* there is none.
ScanCost(item) ==
  LET last == IF HasMatch(item) THEN FirstMatch(item) ELSE Len(Definitions)
  IN  Cardinality({n \in 1..last : Titled(Definitions[n])})

WithinBounds(c) ==
  /\ Comparisons(c) <= Len(Given(c)) * Len(Definitions)
  /\ Len(call[c].renderCalls) <= Len(Given(c))
  /\ \A n \in 1..Len(call[c].renderCalls) :
       LET inv == call[c].renderCalls[n]
       IN  inv.component = FirstMatch(call[c].validItems[inv.item])

\* C30: every call on a finite item sequence and a finite collection eventually
\* returns when each delegate invocation completes, after at most
\* |items| x |definitions| slug comparisons and at most |items| delegate
\* invocations, the scan of an item stopping at its first match.
C30_EveryCallReturnsWithinBounds ==
  /\ [](\A c \in CallIds : WithinBounds(c))
  /\ \A c \in CallIds : (call[c].pc = "called") ~> (call[c].pc = "returned")

====
